---------------------------- MODULE Spec2Model ----------------------------
(***************************************************************************)
(* Model of ext/rbsecp256k1/rbsecp256k1.c: the Ruby wrapper around         *)
(* libsecp256k1 (Context, PrivateKey, PublicKey, Signature, KeyPair).      *)
(*                                                                         *)
(* The wrapper's handlers are translated action by action.  The library    *)
(* they call (libsecp256k1, OpenSSL SHA256/RAND) is modelled by operators  *)
(* that compute what the library computes, on a scaled-down curve of the   *)
(* same shape as secp256k1: y^2 = x^3 + 7 over GF(43), a group of prime    *)
(* order 31 with n < p and p = 3 mod 4.  Byte strings keep their real      *)
(* widths (32-byte scalars and coordinates, 33/65-byte public keys,        *)
(* 64-byte compact signatures); every scalar and coordinate is a 32-byte   *)
(* big-endian number whose significant digits sit in the last bytes.       *)
(***************************************************************************)
EXTENDS Integers, Sequences, FiniteSets, TLC

(***************************************************************************)
(* Sizes                                                                   *)
(***************************************************************************)
UNCOMPRESSED_PUBKEY_SIZE_BYTES == 65
COMPRESSED_PUBKEY_SIZE_BYTES == 33
COMPACT_SIG_SIZE_BYTES == 64
SHA256_DIGEST_LENGTH == 32

\* Curve parameters of the scaled-down secp256k1: field prime and group order.
FIELD_P == 43
GROUP_N == 31

\* The NULL secp256k1_context pointer.  A non-NULL pointer names the struct that
\* owned the object when it was malloc'ed.
NULL == [owner |-> "NULL", n |-> 0]

Address(owner, n) == [owner |-> owner, n |-> n]

(***************************************************************************)
(* Byte strings                                                            *)
(***************************************************************************)
Zeros(n) == [i \in 1..n |-> 0]

\* 32-byte big-endian encoding of v (v < 65536).
BE32(v) ==
  [i \in 1..32 |-> IF i = 32 THEN v % 256
                   ELSE IF i = 31 THEN (v \div 256) % 256
                   ELSE 0]

\* Value of the big-endian number b[1..i] modulo m (Horner's rule).
RECURSIVE ModPrefix(_, _, _)
ModPrefix(b, i, m) ==
  IF i = 0 THEN 0 ELSE (ModPrefix(b, i - 1, m) * 256 + b[i]) % m

\* a < b as big-endian numbers of the same length.
BytesLess(a, b) ==
  \E i \in 1..Len(a) : a[i] < b[i] /\ \A j \in 1..(i - 1) : a[j] = b[j]

IsZeroBytes(b) == \A i \in 1..Len(b) : b[i] = 0

(***************************************************************************)
(* Scalars (mod GROUP_N) and field elements (mod FIELD_P)                  *)
(***************************************************************************)
\* secp256k1_scalar_set_b32: the value reduced mod n, and whether it was >= n.
secp256k1_scalar_set_b32(b32) ==
  [val      |-> ModPrefix(b32, 32, GROUP_N),
   overflow |-> ~BytesLess(b32, BE32(GROUP_N))]

\* secp256k1_fe_set_b32_limit: fails when the value is >= p.
secp256k1_fe_set_b32_limit(b32) ==
  [ok  |-> BytesLess(b32, BE32(FIELD_P)),
   val |-> ModPrefix(b32, 32, FIELD_P)]

secp256k1_scalar_inverse(a) == CHOOSE b \in 1..(GROUP_N - 1) : (a * b) % GROUP_N = 1

secp256k1_fe_inv(a) == CHOOSE b \in 1..(FIELD_P - 1) : (a * b) % FIELD_P = 1

secp256k1_scalar_is_high(s) == s > GROUP_N \div 2

(***************************************************************************)
(* Group                                                                   *)
(***************************************************************************)
Infinity == [inf |-> TRUE, x |-> 0, y |-> 0]

Generator == [inf |-> FALSE, x |-> 2, y |-> 12]

Affine(x, y) == [inf |-> FALSE, x |-> x, y |-> y]

\* secp256k1_ge_is_valid_var: y^2 = x^3 + 7.
secp256k1_ge_is_valid_var(a) ==
  ~a.inf /\ (a.y * a.y) % FIELD_P = (a.x * a.x * a.x + 7) % FIELD_P

secp256k1_gej_add(a, b) ==
  IF a.inf THEN b
  ELSE IF b.inf THEN a
  ELSE IF a.x = b.x /\ (a.y + b.y) % FIELD_P = 0 THEN Infinity
  ELSE LET lam == IF a.x = b.x
                  THEN (3 * a.x * a.x * secp256k1_fe_inv((2 * a.y) % FIELD_P)) % FIELD_P
                  ELSE (((b.y - a.y) % FIELD_P)
                         * secp256k1_fe_inv((b.x - a.x) % FIELD_P)) % FIELD_P
           x3  == (lam * lam - a.x - b.x) % FIELD_P
           y3  == (lam * (a.x - x3) - a.y) % FIELD_P
       IN  Affine(x3, y3)

RECURSIVE secp256k1_ecmult(_, _)
secp256k1_ecmult(k, a) ==
  IF k = 0 THEN Infinity
  ELSE LET h == secp256k1_ecmult(k \div 2, a)
           d == secp256k1_gej_add(h, h)
       IN  IF k % 2 = 1 THEN secp256k1_gej_add(d, a) ELSE d

\* Multiples of the generator, k*G for k in 0..n-1 (secp256k1_ecmult_gen).
GenTable == [k \in 0..(GROUP_N - 1) |-> secp256k1_ecmult(k, Generator)]

\* secp256k1_ge_set_xo_var: the point with abscissa x and the given parity of y.
secp256k1_ge_set_xo_var(x, odd) ==
  LET rhs   == (x * x * x + 7) % FIELD_P
      roots == {y \in 0..(FIELD_P - 1) : (y * y) % FIELD_P = rhs /\ (y % 2 = 1) = odd}
  IN  IF roots = {} THEN [ok |-> FALSE, ge |-> Infinity]
      ELSE [ok |-> TRUE, ge |-> Affine(x, CHOOSE y \in roots : TRUE)]

(***************************************************************************)
(* libsecp256k1 context state (secp256k1_context): the blinding of the     *)
(* generator multiplication, k*G computed as (k + blind)*G + initial with  *)
(* initial = -blind*G.                                                     *)
(***************************************************************************)
secp256k1_ge_neg(a) ==
  IF a.inf THEN a ELSE Affine(a.x, (FIELD_P - a.y) % FIELD_P)

\* secp256k1_context_create: the default blinding (blind = 1, initial = -G).
secp256k1_context_create ==
  [blind |-> 1, initial |-> secp256k1_ge_neg(Generator)]

\* secp256k1_context_randomize(ctx, seed32): a blinding derived from the seed.
secp256k1_context_randomize(seed32) ==
  LET b == 1 + ModPrefix(seed32, 32, GROUP_N - 1)
  IN  [blind |-> b, initial |-> secp256k1_ge_neg(GenTable[b])]

\* secp256k1_ecmult_gen leaving the blinding in its result.
secp256k1_ecmult_gen_blinded(ctx, k) == GenTable[(k + ctx.blind) % GROUP_N]

\* secp256k1_ecmult_gen under a context's blinding.
secp256k1_ecmult_gen(ctx, k) ==
  secp256k1_gej_add(GenTable[(k + ctx.blind) % GROUP_N], ctx.initial)

(***************************************************************************)
(* Public keys (secp256k1_pubkey: the affine coordinates, zero when        *)
(* cleared)                                                                *)
(***************************************************************************)
ZeroPubkey == [x |-> 0, y |-> 0]

secp256k1_pubkey_save(ge) == [x |-> ge.x, y |-> ge.y]

secp256k1_pubkey_load(pubkey) == Affine(pubkey.x, pubkey.y)

\* secp256k1_ec_seckey_verify: 1 iff the scalar is non-zero and below n.
secp256k1_ec_seckey_verify(seckey) ==
  LET sec == secp256k1_scalar_set_b32(seckey)
  IN  IF ~sec.overflow /\ sec.val # 0 THEN 1 ELSE 0

\* secp256k1_ec_pubkey_create: seckey * G, or 0 and a cleared pubkey.
secp256k1_ec_pubkey_create(ctx, seckey) ==
  LET sec == secp256k1_scalar_set_b32(seckey)
  IN  IF ~sec.overflow /\ sec.val # 0
      THEN [ret |-> 1,
            pubkey |-> secp256k1_pubkey_save(secp256k1_ecmult_gen(ctx, sec.val))]
      ELSE [ret |-> 0, pubkey |-> ZeroPubkey]

SECP256K1_TAG_PUBKEY_EVEN == 2
SECP256K1_TAG_PUBKEY_ODD == 3
SECP256K1_TAG_PUBKEY_UNCOMPRESSED == 4
SECP256K1_TAG_PUBKEY_HYBRID_EVEN == 6
SECP256K1_TAG_PUBKEY_HYBRID_ODD == 7

\* secp256k1_eckey_pubkey_parse: the point a serialized key encodes.
secp256k1_eckey_pubkey_parse(pub, size) ==
  IF size = 33 /\ pub[1] \in {SECP256K1_TAG_PUBKEY_EVEN, SECP256K1_TAG_PUBKEY_ODD}
  THEN LET x == secp256k1_fe_set_b32_limit(SubSeq(pub, 2, 33))
       IN  IF ~x.ok THEN [ok |-> FALSE, ge |-> Infinity]
           ELSE secp256k1_ge_set_xo_var(x.val, pub[1] = SECP256K1_TAG_PUBKEY_ODD)
  ELSE IF size = 65 /\ pub[1] \in {SECP256K1_TAG_PUBKEY_UNCOMPRESSED,
                                   SECP256K1_TAG_PUBKEY_HYBRID_EVEN,
                                   SECP256K1_TAG_PUBKEY_HYBRID_ODD}
  THEN LET x == secp256k1_fe_set_b32_limit(SubSeq(pub, 2, 33))
           y == secp256k1_fe_set_b32_limit(SubSeq(pub, 34, 65))
           ge == Affine(x.val, y.val)
       IN  IF ~x.ok \/ ~y.ok THEN [ok |-> FALSE, ge |-> Infinity]
           ELSE IF pub[1] \in {SECP256K1_TAG_PUBKEY_HYBRID_EVEN,
                               SECP256K1_TAG_PUBKEY_HYBRID_ODD}
                   /\ (y.val % 2 = 1) # (pub[1] = SECP256K1_TAG_PUBKEY_HYBRID_ODD)
           THEN [ok |-> FALSE, ge |-> Infinity]
           ELSE [ok |-> secp256k1_ge_is_valid_var(ge), ge |-> ge]
  ELSE [ok |-> FALSE, ge |-> Infinity]

\* secp256k1_ec_pubkey_parse: 1 and the parsed key, or 0 and a cleared pubkey.
secp256k1_ec_pubkey_parse(input, inputlen) ==
  LET q == secp256k1_eckey_pubkey_parse(input, inputlen)
  IN  IF q.ok THEN [ret |-> 1, pubkey |-> secp256k1_pubkey_save(q.ge)]
      ELSE [ret |-> 0, pubkey |-> ZeroPubkey]

\* secp256k1_ec_pubkey_serialize with SECP256K1_EC_COMPRESSED (TRUE) or
\* SECP256K1_EC_UNCOMPRESSED (FALSE).
secp256k1_ec_pubkey_serialize(pubkey, compressed) ==
  LET ge == secp256k1_pubkey_load(pubkey)
  IN  IF compressed
      THEN <<IF ge.y % 2 = 1 THEN SECP256K1_TAG_PUBKEY_ODD
                             ELSE SECP256K1_TAG_PUBKEY_EVEN>> \o BE32(ge.x)
      ELSE <<SECP256K1_TAG_PUBKEY_UNCOMPRESSED>> \o BE32(ge.x) \o BE32(ge.y)

(***************************************************************************)
(* SHA-256 (OpenSSL), scaled down: a 32-byte digest mixed from every byte  *)
(* of the data and its length.                                             *)
(***************************************************************************)
RECURSIVE Absorb(_, _)
Absorb(data, i) ==
  IF i = 0 THEN 89 ELSE (Absorb(data, i - 1) * 33 + data[i] + 1) % 65521

SHA256(data) ==
  LET h == Absorb(data, Len(data))
  IN  [j \in 1..SHA256_DIGEST_LENGTH |-> ((h + j) * (2 * j + 1)) % 256]

(***************************************************************************)
(* ECDSA (secp256k1_ecdsa_signature: the pair (r, s), zero when cleared)   *)
(***************************************************************************)
ZeroSig == [r |-> 0, s |-> 0]

\* The default nonce function (RFC 6979): a function of message hash, key and
\* retry counter only.
nonce_function_rfc6979(msg32, key32, counter) ==
  BE32((ModPrefix(msg32, 32, 251) * 17 + ModPrefix(key32, 32, 241) * 29
        + counter * 7 + 3) % 64)

\* secp256k1_ecdsa_sig_sign: r = (k*G).x mod n, s = (m + r*d)/k, s made low.
secp256k1_ecdsa_sig_sign(ctx, seckey, message, nonce) ==
  LET rp == secp256k1_ecmult_gen(ctx, nonce)
      r  == secp256k1_scalar_set_b32(BE32(rp.x)).val
      s  == (secp256k1_scalar_inverse(nonce) * ((message + r * seckey) % GROUP_N)) % GROUP_N
  IN  IF r = 0 \/ s = 0 THEN [ok |-> FALSE, sig |-> ZeroSig]
      ELSE [ok |-> TRUE,
            sig |-> [r |-> r,
                     s |-> IF secp256k1_scalar_is_high(s) THEN GROUP_N - s ELSE s]]

\* The retry loop of secp256k1_ecdsa_sign, from retry counter count.
RECURSIVE secp256k1_ecdsa_sign_loop(_, _, _, _)
secp256k1_ecdsa_sign_loop(ctx, msg32, seckey, count) ==
  LET non == secp256k1_scalar_set_b32(nonce_function_rfc6979(msg32, seckey, count))
      try == secp256k1_ecdsa_sig_sign(ctx,
                                      secp256k1_scalar_set_b32(seckey).val,
                                      secp256k1_scalar_set_b32(msg32).val,
                                      non.val)
  IN  IF ~non.overflow /\ non.val # 0 /\ try.ok THEN try.sig
      ELSE secp256k1_ecdsa_sign_loop(ctx, msg32, seckey, count + 1)

\* secp256k1_ecdsa_sign starting its nonce search at the context's blinding.
secp256k1_ecdsa_sign_nonce_from_blinding(ctx, msg32, seckey) ==
  LET sec == secp256k1_scalar_set_b32(seckey)
  IN  IF ~sec.overflow /\ sec.val # 0
      THEN [ret |-> 1,
            sig |-> secp256k1_ecdsa_sign_loop(ctx, msg32, seckey, ctx.blind - 1)]
      ELSE [ret |-> 0, sig |-> ZeroSig]

\* secp256k1_ecdsa_sign with the default nonce function (noncefp = NULL).
secp256k1_ecdsa_sign(ctx, msg32, seckey) ==
  LET sec == secp256k1_scalar_set_b32(seckey)
  IN  IF ~sec.overflow /\ sec.val # 0
      THEN [ret |-> 1, sig |-> secp256k1_ecdsa_sign_loop(ctx, msg32, seckey, 0)]
      ELSE [ret |-> 0, sig |-> ZeroSig]

\* secp256k1_ecdsa_sig_verify: (u1*G + u2*Q).x = r mod n.
secp256k1_ecdsa_sig_verify(sigr, sigs, pubkey, message) ==
  IF sigr = 0 \/ sigs = 0 THEN FALSE
  ELSE LET sn == secp256k1_scalar_inverse(sigs)
           u1 == (sn * message) % GROUP_N
           u2 == (sn * sigr) % GROUP_N
           pr == secp256k1_gej_add(secp256k1_ecmult(u2, pubkey), GenTable[u1])
       IN  IF pr.inf THEN FALSE
           ELSE sigr = pr.x \/ (sigr + GROUP_N < FIELD_P /\ sigr + GROUP_N = pr.x)

\* secp256k1_ecdsa_verify: 1 iff s is low and the signature verifies.
secp256k1_ecdsa_verify(sig, msg32, pubkey) ==
  IF ~secp256k1_scalar_is_high(sig.s)
     /\ secp256k1_ecdsa_sig_verify(sig.r, sig.s, secp256k1_pubkey_load(pubkey),
                                   secp256k1_scalar_set_b32(msg32).val)
  THEN 1 ELSE 0

\* secp256k1_ecdsa_signature_parse_compact: 0 when r or s is >= n.
secp256k1_ecdsa_signature_parse_compact(input64) ==
  LET r == secp256k1_scalar_set_b32(SubSeq(input64, 1, 32))
      s == secp256k1_scalar_set_b32(SubSeq(input64, 33, 64))
  IN  IF ~r.overflow /\ ~s.overflow
      THEN [ret |-> 1, sig |-> [r |-> r.val, s |-> s.val]]
      ELSE [ret |-> 0, sig |-> ZeroSig]

\* A serialization that swaps the two halves of the compact encoding.
secp256k1_ecdsa_signature_serialize_compact_swapped(sig) == BE32(sig.s) \o BE32(sig.r)

\* secp256k1_ecdsa_signature_serialize_compact: r || s, 32 bytes each.
secp256k1_ecdsa_signature_serialize_compact(sig) == BE32(sig.r) \o BE32(sig.s)

\* DER: the INTEGER contents of a 32-byte big-endian number, as
\* secp256k1_ecdsa_sig_serialize trims them: a zero byte in front, then leading
\* zero bytes dropped while the next byte has its top bit clear.
RECURSIVE DerTrim(_)
DerTrim(b) ==
  IF Len(b) > 1 /\ b[1] = 0 /\ b[2] < 128 THEN DerTrim(Tail(b)) ELSE b

\* secp256k1_ecdsa_signature_serialize_der into a buffer of size bytes:
\* 0x30 len 0x02 lenR R 0x02 lenS S, or 0 when the buffer is too small.
secp256k1_ecdsa_signature_serialize_der(sig, size) ==
  LET r == DerTrim(<<0>> \o BE32(sig.r))
      s == DerTrim(<<0>> \o BE32(sig.s))
  IN  IF size < 6 + Len(s) + Len(r)
      THEN [ret |-> 0, output |-> <<>>]
      ELSE [ret |-> 1,
            output |-> <<48, 4 + Len(s) + Len(r), 2, Len(r)>> \o r
                       \o <<2, Len(s)>> \o s]

\* secp256k1_der_read_len at position pos of sig[1..end], for inputs shorter
\* than 128 bytes: the short form only (a long form that is minimal announces
\* at least 128 bytes and exceeds the input).
secp256k1_der_read_len(sig, pos, end) ==
  IF pos > end \/ sig[pos] >= 128
  THEN [ok |-> FALSE, len |-> 0, pos |-> pos]
  ELSE [ok |-> TRUE, len |-> sig[pos], pos |-> pos + 1]

\* secp256k1_der_parse_integer: refuses a missing tag, an empty or overlong
\* INTEGER and excessive padding; a negative or too large number parses as 0.
secp256k1_der_parse_integer(sig, pos, end) ==
  IF pos > end \/ sig[pos] # 2 THEN [ok |-> FALSE, val |-> 0, pos |-> pos]
  ELSE
    LET rl == secp256k1_der_read_len(sig, pos + 1, end)
        at == rl.pos
    IN  IF ~rl.ok \/ rl.len = 0 \/ rl.len > end - at + 1
        THEN [ok |-> FALSE, val |-> 0, pos |-> pos]
        ELSE IF sig[at] = 0 /\ rl.len > 1 /\ sig[at + 1] < 128
        THEN [ok |-> FALSE, val |-> 0, pos |-> pos]
        ELSE IF sig[at] = 255 /\ rl.len > 1 /\ sig[at + 1] >= 128
        THEN [ok |-> FALSE, val |-> 0, pos |-> pos]
        ELSE
          LET negative == sig[at] >= 128
              from     == IF sig[at] = 0 THEN at + 1 ELSE at
              rlen     == IF sig[at] = 0 THEN rl.len - 1 ELSE rl.len
              ra       == Zeros(32 - rlen) \o SubSeq(sig, from, from + rlen - 1)
              overflow == negative \/ rlen > 32
                          \/ secp256k1_scalar_set_b32(ra).overflow
          IN  [ok  |-> TRUE,
               val |-> IF overflow THEN 0 ELSE secp256k1_scalar_set_b32(ra).val,
               pos |-> from + rlen]

\* secp256k1_ecdsa_signature_parse_der: a SEQUENCE of exactly two INTEGERs
\* filling the input; on failure the signature is cleared.
secp256k1_ecdsa_signature_parse_der(input, inputlen) ==
  IF inputlen = 0 \/ input[1] # 48 THEN [ret |-> 0, sig |-> ZeroSig]
  ELSE
    LET rl == secp256k1_der_read_len(input, 2, inputlen)
    IN  IF ~rl.ok \/ rl.len # inputlen - rl.pos + 1 THEN [ret |-> 0, sig |-> ZeroSig]
        ELSE
          LET rr == secp256k1_der_parse_integer(input, rl.pos, inputlen)
          IN  IF ~rr.ok THEN [ret |-> 0, sig |-> ZeroSig]
              ELSE
                LET rs == secp256k1_der_parse_integer(input, rr.pos, inputlen)
                IN  IF ~rs.ok \/ rs.pos # inputlen + 1
                    THEN [ret |-> 0, sig |-> ZeroSig]
                    ELSE [ret |-> 1, sig |-> [r |-> rr.val, s |-> rs.val]]

(***************************************************************************)
(* Inputs and bounds                                                       *)
(***************************************************************************)
\* Wrapper objects (Context, PrivateKey, PublicKey, Signature, KeyPair)
\* allocated over a run.
MaxObjects == 4

\* Context objects created over a run.
MaxContexts == 1

\* Seeds RAND_bytes can deliver to Context_initialize.
Seeds == {BE32(7)}

\* What an uninitialized 32-byte stack buffer can hold.
StackGarbage == {Zeros(32), BE32(7)}

\* Outcomes of the OpenSSL generator: RAND_status() and RAND_bytes().
RngOutcomes(bytes) ==
  {[status |-> 0, rand_bytes |-> 0, bytes |-> Zeros(32)],
   [status |-> 1, rand_bytes |-> 0, bytes |-> Zeros(32)]}
  \cup {[status |-> 1, rand_bytes |-> 1, bytes |-> b] : b \in bytes}

\* Key bytes RAND_bytes can deliver to PrivateKey_generate.
RandomKeys == {BE32(3), BE32(40)}

\* Strings an application passes as private key data: two valid scalars, zero,
\* the group order, a 31-byte and a 33-byte string.
KeyInputs ==
  {BE32(3), BE32(5), Zeros(32), BE32(GROUP_N), Zeros(31), <<0>> \o BE32(5)}

\* Messages to sign and verify.
Messages == {<<>>, <<104, 105>>}

(***************************************************************************)
(* State                                                                   *)
(***************************************************************************)
VARIABLES
  ctxHeap,      \* the secp256k1_context objects malloc'ed by libsecp256k1
  contexts,     \* Context structs     [ctx, ...]
  privateKeys,  \* PrivateKey structs  [data, ctx, ...]
  publicKeys,   \* PublicKey structs   [pubkey, ctx, ...]
  signatures,   \* Signature structs   [sig, ctx, ...]
  keyPairs,     \* KeyPair structs     [public_key, private_key, ...]
  strings,      \* Ruby Strings an instance variable (@data) keeps alive
  faults,       \* memory faults a run has committed on ctxHeap
  ret,          \* outcome of the last call: [op, args, raised, value]
  threads       \* Ruby threads sharing a Context: [pc, ...] per thread

vars == <<ctxHeap, contexts, privateKeys, publicKeys, signatures, keyPairs,
          strings, faults, ret, threads>>

heapVars == <<ctxHeap, contexts, privateKeys, publicKeys, signatures, keyPairs,
              strings, faults>>

\* Every struct carries two fields of the Ruby VM beside its C fields: held
\* (the application holds a reference to the object) and freed (the GC has
\* run the object's free function).
NumObjects ==
  Len(contexts) + Len(privateKeys) + Len(publicKeys) + Len(signatures)
  + Len(keyPairs)

(***************************************************************************)
(* secp256k1_context objects: creation, cloning, destruction, use          *)
(***************************************************************************)
\* malloc of a new secp256k1_context at address at, holding state st.
NewHandle(heap, at, st) ==
  [heap |-> (at :> [live |-> TRUE, st |-> st]) @@ heap, h |-> at]

\* A clone that hands back the object it was given.
secp256k1_context_clone_same(heap, h, at) == [heap |-> heap, h |-> h]

\* secp256k1_context_clone(h): a new live object, at address at, with a copy of
\* h's state.
secp256k1_context_clone(heap, h, at) == NewHandle(heap, at, heap[h].st)

\* secp256k1_context_destroy(h): a no-op on NULL, else the object is freed.
secp256k1_context_destroy(heap, h) ==
  IF h = NULL THEN heap
  ELSE [heap EXCEPT ![h] = [live |-> FALSE, st |-> secp256k1_context_create]]

\* The faults of destroying h and of passing h to a library call.
DestroyFaults(heap, h) ==
  IF h # NULL /\ ~heap[h].live THEN {"double_destroy"} ELSE {}

UseFaults(heap, h) ==
  IF h # NULL /\ ~heap[h].live THEN {"use_after_destroy"} ELSE {}

(***************************************************************************)
(* Reachability (the GC's mark phase): an object is reachable when the     *)
(* application holds it, or a reachable KeyPair marks it (KeyPair_mark).   *)
(***************************************************************************)
Live(objs) == {i \in DOMAIN objs : objs[i].held /\ ~objs[i].freed}

KeyPair_mark(field, i) ==
  \E k \in Live(keyPairs) : keyPairs[k][field] = i

ReachablePrivateKeys ==
  {i \in DOMAIN privateKeys :
     ~privateKeys[i].freed /\ (privateKeys[i].held \/ KeyPair_mark("private_key", i))}

ReachablePublicKeys ==
  {i \in DOMAIN publicKeys :
     ~publicKeys[i].freed /\ (publicKeys[i].held \/ KeyPair_mark("public_key", i))}

\* The outcome of a call op(args): the value returned, or the exception raised.
Returned(op, args, value) ==
  [op |-> op, args |-> args, raised |-> "none", value |-> value]

Raised(op, args, class) ==
  [op |-> op, args |-> args, raised |-> class, value |-> 0]

(***************************************************************************)
(* GenerateRandomBytes                                                     *)
(***************************************************************************)
RESULT_SUCCESS == 0
RESULT_FAILURE == 1

\* rng: what RAND_status and RAND_bytes do; out_bytes: the buffer before the
\* call.  The buffer is written only when RAND_bytes is reached.
GenerateRandomBytes(rng, out_bytes) ==
  IF rng.status = 0
  THEN [result |-> RESULT_FAILURE, out_bytes |-> out_bytes]
  ELSE IF rng.rand_bytes # 1
  THEN [result |-> RESULT_FAILURE, out_bytes |-> out_bytes]
  ELSE [result |-> RESULT_SUCCESS, out_bytes |-> rng.bytes]

(***************************************************************************)
(* Secp256k1::Context.new: Context_alloc, then Context_initialize          *)
(***************************************************************************)
\* The seed Context_initialize hands to secp256k1_context_randomize.
Context_initialize_seed(rng, stack) == GenerateRandomBytes(rng, stack).out_bytes

\* The struct Context_alloc wraps: zeroed (MEMZERO), ctx NULL.  seed_generated
\* is history: whether the seed the context was randomized with came from a
\* successful GenerateRandomBytes.
Context_alloc ==
  [ctx |-> NULL, held |-> FALSE, freed |-> FALSE, seed_generated |-> FALSE]

Context_new ==
  /\ NumObjects < MaxObjects
  /\ Len(contexts) < MaxContexts
  /\ \E rng \in RngOutcomes(Seeds), stack \in StackGarbage, randomize \in {0, 1} :
       LET seed    == Context_initialize_seed(rng, stack)
           created == NewHandle(ctxHeap, Address("Context", Len(contexts) + 1),
                                secp256k1_context_create)
           st      == IF randomize = 1 THEN secp256k1_context_randomize(seed)
                      ELSE secp256k1_context_create
       IN  /\ ctxHeap' = [created.heap EXCEPT ![created.h].st = st]
           /\ contexts' = Append(contexts,
                [ctx |-> created.h, held |-> randomize = 1, freed |-> FALSE,
                 seed_generated |->
                   GenerateRandomBytes(rng, stack).result = RESULT_SUCCESS])
           /\ ret' = IF randomize = 1
                     THEN Returned("Context.new", <<>>, Len(contexts) + 1)
                     ELSE Raised("Context.new", <<>>,
                                 "RuntimeError: context randomization failed")
  /\ UNCHANGED <<privateKeys, publicKeys, signatures, keyPairs, strings, faults, threads>>

(***************************************************************************)
(* Secp256k1::PrivateKey.new: PrivateKey_alloc, then PrivateKey_initialize *)
(***************************************************************************)
\* The checks of PrivateKey_initialize with a length check that lets longer
\* strings through.
PrivateKey_initialize_check_at_least(in_private_key_data) ==
  IF Len(in_private_key_data) < 32 THEN "ArgumentError: private key data must be 32 bytes in length"
  ELSE IF secp256k1_ec_seckey_verify(in_private_key_data) # 1
  THEN "ArgumentError: invalid private key data"
  ELSE "none"

\* The checks of PrivateKey_initialize, in the code's order.
PrivateKey_initialize_check(in_private_key_data) ==
  IF Len(in_private_key_data) # 32 THEN "ArgumentError: private key data must be 32 bytes in length"
  ELSE IF secp256k1_ec_seckey_verify(in_private_key_data) # 1
  THEN "ArgumentError: invalid private key data"
  ELSE "none"

\* The struct PrivateKey_alloc wraps: zeroed (MEMZERO), ctx NULL.
PrivateKey_alloc ==
  [data |-> Zeros(32), ctx |-> NULL, iv_data |-> 0, held |-> FALSE, freed |-> FALSE]

\* klass.new(in_context, data), reached by the call op(args): the heap after the
\* call and its outcome.  A raise leaves the allocated struct behind,
\* unreferenced.
PrivateKey_new(op, args, c, in_private_key_data) ==
  LET check  == PrivateKey_initialize_check(in_private_key_data)
      cloned == secp256k1_context_clone(ctxHeap, contexts[c].ctx,
                                        Address("PrivateKey", Len(privateKeys) + 1))
  IN  /\ faults' = faults \cup UseFaults(ctxHeap, contexts[c].ctx)
      /\ IF check # "none"
         THEN /\ privateKeys' = Append(privateKeys, PrivateKey_alloc)
              /\ ret' = Raised(op, args, check)
              /\ UNCHANGED <<ctxHeap, strings>>
         ELSE /\ privateKeys' = Append(privateKeys,
                   [PrivateKey_alloc EXCEPT
                      !.data = [i \in 1..32 |-> in_private_key_data[i]],
                      !.ctx = cloned.h,
                      !.iv_data = Len(strings) + 1,
                      !.held = TRUE])
              /\ ctxHeap' = cloned.heap
              /\ strings' = Append(strings, in_private_key_data)
              /\ ret' = Returned(op, args, Len(privateKeys) + 1)

PrivateKey_fromBytes ==
  /\ NumObjects < MaxObjects
  /\ \E c \in Live(contexts), data \in KeyInputs :
       PrivateKey_new("PrivateKey.new", data, c, data)
  /\ UNCHANGED <<contexts, publicKeys, signatures, keyPairs, threads>>

\* PrivateKey.generate drawing a second time when the first draw fails.  The
\* call's arguments are the outcomes of the generator it consumed.
PrivateKey_generate_retrying ==
  /\ NumObjects < MaxObjects
  /\ \E c \in Live(contexts), rng \in RngOutcomes(RandomKeys),
        again \in RngOutcomes(RandomKeys) :
       LET drawn   == GenerateRandomBytes(rng, Zeros(32))
           redrawn == GenerateRandomBytes(again, Zeros(32))
       IN  IF drawn.result = RESULT_SUCCESS
           THEN PrivateKey_new("PrivateKey.generate", <<rng>>, c, drawn.out_bytes)
           ELSE IF redrawn.result = RESULT_SUCCESS
           THEN PrivateKey_new("PrivateKey.generate", <<rng, again>>, c,
                               redrawn.out_bytes)
           ELSE /\ ret' = Raised("PrivateKey.generate", <<rng, again>>,
                                 "RuntimeError: Random bytes generation failed.")
                /\ UNCHANGED <<ctxHeap, privateKeys, strings, faults>>
  /\ UNCHANGED <<contexts, publicKeys, signatures, keyPairs, threads>>

\* PrivateKey.generate: one draw, then klass.new.  The buffer is read only
\* after a successful draw, so what it held before does not matter.  The
\* call's arguments are the outcomes of the generator it consumed.
PrivateKey_generate ==
  /\ NumObjects < MaxObjects
  /\ \E c \in Live(contexts), rng \in RngOutcomes(RandomKeys) :
       LET drawn == GenerateRandomBytes(rng, Zeros(32))
       IN  IF drawn.result # RESULT_SUCCESS
           THEN /\ ret' = Raised("PrivateKey.generate", <<rng>>,
                                 "RuntimeError: Random bytes generation failed.")
                /\ UNCHANGED <<ctxHeap, privateKeys, strings, faults>>
           ELSE PrivateKey_new("PrivateKey.generate", <<rng>>, c, drawn.out_bytes)
  /\ UNCHANGED <<contexts, publicKeys, signatures, keyPairs, threads>>

\* Byte values an application writes into a String it holds.
WrittenBytes == {9}

\* PrivateKey#data (attr_reader): the String object @data refers to, which is
\* the object the caller passed to new.
PrivateKey_data ==
  /\ \E p \in ReachablePrivateKeys :
       /\ privateKeys[p].iv_data # 0
       /\ ret' = Returned("PrivateKey#data", p, strings[privateKeys[p].iv_data])
  /\ UNCHANGED <<ctxHeap, contexts, privateKeys, publicKeys, signatures, keyPairs, strings, faults, threads>>

\* The application writes a byte into the String it passed to PrivateKey.new
\* (String#setbyte): the String is not frozen, and @data refers to it.
String_setbyte ==
  /\ \E p \in ReachablePrivateKeys, b \in WrittenBytes :
       LET str == privateKeys[p].iv_data
       IN  /\ str # 0
           /\ strings' = [strings EXCEPT ![str][Len(strings[str])] = b]
           /\ ret' = Returned("String#setbyte", <<p, b>>, b)
  /\ UNCHANGED <<ctxHeap, contexts, privateKeys, publicKeys, signatures, keyPairs, faults, threads>>

(***************************************************************************)
(* Secp256k1::PublicKey                                                    *)
(***************************************************************************)
\* The struct PublicKey_alloc wraps: zeroed (MEMZERO), ctx NULL.
PublicKey_alloc ==
  [pubkey |-> ZeroPubkey, ctx |-> NULL, held |-> FALSE, freed |-> FALSE]

\* PublicKey.new(in_context, in_private_key): PublicKey_alloc, then
\* PublicKey_initialize.  hold: whether the caller keeps the result.
PublicKey_new(op, c, p, hold) ==
  LET made   == secp256k1_ec_pubkey_create(ctxHeap[contexts[c].ctx].st,
                                           privateKeys[p].data)
      cloned == secp256k1_context_clone(ctxHeap, contexts[c].ctx,
                                        Address("PublicKey", Len(publicKeys) + 1))
  IN  /\ faults' = faults \cup UseFaults(ctxHeap, contexts[c].ctx)
      /\ IF made.ret = 0
         THEN /\ publicKeys' = Append(publicKeys,
                   [PublicKey_alloc EXCEPT !.pubkey = made.pubkey])
              /\ ret' = Raised(op, p, "TypeError: Invalid private key data")
              /\ UNCHANGED ctxHeap
         ELSE /\ publicKeys' = Append(publicKeys,
                   [PublicKey_alloc EXCEPT !.pubkey = made.pubkey,
                                           !.ctx = cloned.h,
                                           !.held = hold])
              /\ ctxHeap' = cloned.heap
              /\ ret' = Returned(op, p, Len(publicKeys) + 1)

PublicKey_fromPrivateKey ==
  /\ NumObjects < MaxObjects
  /\ \E c \in Live(contexts), p \in ReachablePrivateKeys :
       PublicKey_new("PublicKey.new", c, p, TRUE)
  /\ UNCHANGED <<contexts, privateKeys, signatures, keyPairs, strings, threads>>

\* Serialized keys an application passes to public_key_from_data: the three
\* encodings of two points, and malformed ones (a 34-byte string, a 33-byte
\* string with prefix 0x04, an abscissa off the curve, an ordinate off the
\* curve, a hybrid prefix of the wrong parity, the empty string).
PubkeyInputs ==
  LET a == GenTable[3]
      b == GenTable[5]
  IN  {<<IF a.y % 2 = 1 THEN 3 ELSE 2>> \o BE32(a.x),
       <<4>> \o BE32(a.x) \o BE32(a.y),
       <<IF b.y % 2 = 1 THEN 3 ELSE 2>> \o BE32(b.x),
       <<4>> \o BE32(b.x) \o BE32(b.y),
       <<IF a.y % 2 = 1 THEN 7 ELSE 6>> \o BE32(a.x) \o BE32(a.y),
       <<IF a.y % 2 = 1 THEN 6 ELSE 7>> \o BE32(a.x) \o BE32(a.y),
       <<2>> \o BE32(a.x) \o <<0>>,
       <<4>> \o BE32(a.x),
       <<2>> \o BE32(3),
       <<4>> \o BE32(a.x) \o BE32((a.y + 1) % FIELD_P),
       <<>>}

\* The string the last call returned, when that call serialized a public key:
\* an application can pass it back to public_key_from_data.
LastSerialized ==
  IF ret.op \in {"PublicKey#compressed", "PublicKey#uncompressed"}
  THEN {ret.value} ELSE {}

\* The parse call with the length of a compressed key in place of RSTRING_LEN.
Context_public_key_from_data_parse_fixed_length(in_public_key_data) ==
  IF Len(in_public_key_data) < COMPRESSED_PUBKEY_SIZE_BYTES
  THEN secp256k1_ec_pubkey_parse(in_public_key_data, Len(in_public_key_data))
  ELSE secp256k1_ec_pubkey_parse(in_public_key_data, COMPRESSED_PUBKEY_SIZE_BYTES)

\* The parse call of Context_public_key_from_data: the string's bytes and
\* RSTRING_LEN.
Context_public_key_from_data_parse(in_public_key_data) ==
  secp256k1_ec_pubkey_parse(in_public_key_data, Len(in_public_key_data))

\* Context#public_key_from_data: the struct is allocated, given its cloned
\* context and wrapped before the data is parsed.
Context_public_key_from_data ==
  /\ NumObjects < MaxObjects
  /\ \E c \in Live(contexts), in_public_key_data \in PubkeyInputs \cup LastSerialized :
       LET cloned == secp256k1_context_clone(ctxHeap, contexts[c].ctx,
                                             Address("PublicKey", Len(publicKeys) + 1))
           parsed == Context_public_key_from_data_parse(in_public_key_data)
       IN  /\ faults' = faults \cup UseFaults(ctxHeap, contexts[c].ctx)
           /\ ctxHeap' = cloned.heap
           /\ publicKeys' = Append(publicKeys,
                [PublicKey_alloc EXCEPT !.pubkey = parsed.pubkey,
                                        !.ctx = cloned.h,
                                        !.held = parsed.ret = 1])
           /\ ret' = IF parsed.ret # 1
                     THEN Raised("Context#public_key_from_data", in_public_key_data,
                                 "RuntimeError: invalid public key data")
                     ELSE Returned("Context#public_key_from_data", in_public_key_data,
                                   Len(publicKeys) + 1)
  /\ UNCHANGED <<contexts, privateKeys, signatures, keyPairs, strings, threads>>

\* PublicKey#compressed and PublicKey#uncompressed.
PublicKey_compressed ==
  /\ \E k \in ReachablePublicKeys :
       /\ faults' = faults \cup UseFaults(ctxHeap, publicKeys[k].ctx)
       /\ ret' = Returned("PublicKey#compressed", k,
                   secp256k1_ec_pubkey_serialize(publicKeys[k].pubkey, TRUE))
  /\ UNCHANGED <<ctxHeap, contexts, privateKeys, publicKeys, signatures, keyPairs, strings, threads>>

PublicKey_uncompressed ==
  /\ \E k \in ReachablePublicKeys :
       /\ faults' = faults \cup UseFaults(ctxHeap, publicKeys[k].ctx)
       /\ ret' = Returned("PublicKey#uncompressed", k,
                   secp256k1_ec_pubkey_serialize(publicKeys[k].pubkey, FALSE))
  /\ UNCHANGED <<ctxHeap, contexts, privateKeys, publicKeys, signatures, keyPairs, strings, threads>>

(***************************************************************************)
(* Secp256k1::KeyPair                                                      *)
(***************************************************************************)
\* The struct KeyPair_alloc wraps (no reference set yet).  made_by is history:
\* the call that built the pair.
KeyPair_alloc ==
  [public_key |-> 0, private_key |-> 0, held |-> FALSE, freed |-> FALSE,
   made_by |-> "none"]

\* KeyPair_initialize stores the two references as given.
KeyPair_initialize(in_public_key, in_private_key, made_by) ==
  [public_key |-> in_public_key, private_key |-> in_private_key,
   held |-> TRUE, freed |-> FALSE, made_by |-> made_by]

\* KeyPair.new(in_public_key, in_private_key): KeyPair_alloc, then
\* KeyPair_initialize.
KeyPair_new ==
  /\ NumObjects < MaxObjects
  /\ \E k \in ReachablePublicKeys, p \in ReachablePrivateKeys :
       /\ keyPairs' = Append(keyPairs, KeyPair_initialize(k, p, "KeyPair.new"))
       /\ ret' = Returned("KeyPair.new", <<k, p>>, Len(keyPairs) + 1)
  /\ UNCHANGED <<ctxHeap, contexts, privateKeys, publicKeys, signatures, strings, faults, threads>>

\* The three calls Context#generate_key_pair and Context#key_pair_from_private_key
\* share once the private key data is at hand: PrivateKey.new, PublicKey.new,
\* KeyPair.new.  A raise in one skips the rest.
KeyPair_build(op, c, data) ==
  LET check == PrivateKey_initialize_check(data)
      h     == contexts[c].ctx
      copy  == [i \in 1..32 |-> data[i]]
      made  == secp256k1_ec_pubkey_create(ctxHeap[h].st, copy)
      c1    == secp256k1_context_clone(ctxHeap, h,
                                       Address("PrivateKey", Len(privateKeys) + 1))
      c2    == secp256k1_context_clone(c1.heap, h,
                                       Address("PublicKey", Len(publicKeys) + 1))
  IN  /\ faults' = faults \cup UseFaults(ctxHeap, h)
      /\ IF check # "none"
         THEN /\ privateKeys' = Append(privateKeys, PrivateKey_alloc)
              /\ ret' = Raised(op, data, check)
              /\ UNCHANGED <<ctxHeap, publicKeys, keyPairs, strings>>
         ELSE /\ privateKeys' = Append(privateKeys,
                   [PrivateKey_alloc EXCEPT !.data = copy,
                                            !.ctx = c1.h,
                                            !.iv_data = Len(strings) + 1])
              /\ strings' = Append(strings, data)
              /\ IF made.ret = 0
                 THEN /\ publicKeys' = Append(publicKeys,
                           [PublicKey_alloc EXCEPT !.pubkey = made.pubkey])
                      /\ ctxHeap' = c1.heap
                      /\ ret' = Raised(op, data, "TypeError: Invalid private key data")
                      /\ UNCHANGED keyPairs
                 ELSE /\ publicKeys' = Append(publicKeys,
                           [PublicKey_alloc EXCEPT !.pubkey = made.pubkey,
                                                   !.ctx = c2.h])
                      /\ ctxHeap' = c2.heap
                      /\ keyPairs' = Append(keyPairs,
                           KeyPair_initialize(Len(publicKeys) + 1,
                                              Len(privateKeys) + 1, op))
                      /\ ret' = Returned(op, data, Len(keyPairs) + 1)

Context_generate_key_pair ==
  /\ NumObjects + 3 <= MaxObjects
  /\ \E c \in Live(contexts), rng \in RngOutcomes(RandomKeys) :
       LET drawn == GenerateRandomBytes(rng, Zeros(32))
       IN  IF drawn.result # RESULT_SUCCESS
           THEN /\ ret' = Raised("Context#generate_key_pair", <<>>,
                                 "RuntimeError: Random bytes generation failed.")
                /\ UNCHANGED <<ctxHeap, privateKeys, publicKeys, keyPairs, strings, faults>>
           ELSE KeyPair_build("Context#generate_key_pair", c, drawn.out_bytes)
  /\ UNCHANGED <<contexts, signatures, threads>>

Context_key_pair_from_private_key ==
  /\ NumObjects + 3 <= MaxObjects
  /\ \E c \in Live(contexts), data \in KeyInputs :
       KeyPair_build("Context#key_pair_from_private_key", c, data)
  /\ UNCHANGED <<contexts, signatures, threads>>

(***************************************************************************)
(* Secp256k1::Signature, Context#sign, Context#verify                      *)
(***************************************************************************)
\* The struct Signature_alloc wraps: zeroed (MEMZERO), ctx NULL.
Signature_alloc ==
  [sig |-> ZeroSig, ctx |-> NULL, held |-> FALSE, freed |-> FALSE]

\* Signature.new: the class has an allocator and no initialize of its own, so
\* new returns what Signature_alloc wraps.
Signature_new ==
  /\ NumObjects < MaxObjects
  /\ signatures' = Append(signatures, [Signature_alloc EXCEPT !.held = TRUE])
  /\ ret' = Returned("Signature.new", <<>>, Len(signatures) + 1)
  /\ UNCHANGED <<ctxHeap, contexts, privateKeys, publicKeys, keyPairs, strings, faults, threads>>

\* SignData hashing one byte past the end of the data (the string's
\* terminating NUL).
SignData_hashing_terminator(in_context, in_data, in_private_key) ==
  LET hash   == SHA256(in_data \o <<0>>)
      signed == secp256k1_ecdsa_sign(in_context, hash, in_private_key)
  IN  IF signed.ret = 1
      THEN [result |-> RESULT_SUCCESS, out_signature |-> signed.sig]
      ELSE [result |-> RESULT_FAILURE, out_signature |-> signed.sig]

\* SignData: SHA-256 of the data, then secp256k1_ecdsa_sign of the hash.
SignData(in_context, in_data, in_private_key) ==
  LET hash   == SHA256(in_data)
      signed == secp256k1_ecdsa_sign(in_context, hash, in_private_key)
  IN  IF signed.ret = 1
      THEN [result |-> RESULT_SUCCESS, out_signature |-> signed.sig]
      ELSE [result |-> RESULT_FAILURE, out_signature |-> signed.sig]

Context_sign ==
  /\ NumObjects < MaxObjects
  /\ \E c \in Live(contexts), p \in ReachablePrivateKeys, in_data \in Messages :
       LET signed == SignData(ctxHeap[contexts[c].ctx].st, in_data, privateKeys[p].data)
           cloned == secp256k1_context_clone(ctxHeap, contexts[c].ctx,
                                             Address("Signature", Len(signatures) + 1))
       IN  /\ faults' = faults \cup UseFaults(ctxHeap, contexts[c].ctx)
           /\ IF signed.result = RESULT_SUCCESS
              THEN /\ signatures' = Append(signatures,
                        [Signature_alloc EXCEPT !.sig = signed.out_signature,
                                                !.ctx = cloned.h,
                                                !.held = TRUE])
                   /\ ctxHeap' = cloned.heap
                   /\ ret' = Returned("Context#sign", <<p, in_data>>, Len(signatures) + 1)
              ELSE /\ signatures' = Append(signatures,
                        [Signature_alloc EXCEPT !.sig = signed.out_signature])
                   /\ ret' = Raised("Context#sign", <<p, in_data>>,
                                    "RuntimeError: unable to compute signature")
                   /\ UNCHANGED ctxHeap
  /\ UNCHANGED <<contexts, privateKeys, publicKeys, keyPairs, strings, threads>>

\* The verdict of Context#verify: SHA-256 of the message, then
\* secp256k1_ecdsa_verify.
Context_verify_result(sig, pubkey, in_message) ==
  LET hash == SHA256(in_message)
  IN  secp256k1_ecdsa_verify(sig, hash, pubkey) = 1

\* Context#verify raising on a signature that does not verify.
Context_verify_raising ==
  /\ \E c \in Live(contexts), s \in Live(signatures), k \in ReachablePublicKeys,
        in_message \in Messages :
       /\ faults' = faults \cup UseFaults(ctxHeap, contexts[c].ctx)
       /\ ret' = IF Context_verify_result(signatures[s].sig, publicKeys[k].pubkey,
                                          in_message)
                 THEN Returned("Context#verify", <<s, k, in_message>>, TRUE)
                 ELSE Raised("Context#verify", <<s, k, in_message>>,
                             "RuntimeError: signature does not verify")
  /\ UNCHANGED <<ctxHeap, contexts, privateKeys, publicKeys, signatures, keyPairs, strings, threads>>

Context_verify ==
  /\ \E c \in Live(contexts), s \in Live(signatures), k \in ReachablePublicKeys,
        in_message \in Messages :
       /\ faults' = faults \cup UseFaults(ctxHeap, contexts[c].ctx)
       /\ ret' = Returned("Context#verify", <<s, k, in_message>>,
                    Context_verify_result(signatures[s].sig, publicKeys[k].pubkey,
                                          in_message))
  /\ UNCHANGED <<ctxHeap, contexts, privateKeys, publicKeys, signatures, keyPairs, strings, threads>>

(***************************************************************************)
(* Signature#der_encoded, Signature#compact, Context#signature_from_der_   *)
(* encoded, Context#signature_from_compact                                 *)
(***************************************************************************)
\* Ruby values passed where a signature string is expected: a String with its
\* bytes, or nil.
RString(bytes) == [type |-> "T_STRING", bytes |-> bytes]

Qnil == [type |-> "T_NIL", bytes |-> <<>>]

\* DER strings an application passes to signature_from_der_encoded: the
\* signature (5, 7), an r above the group order, a byte after the SEQUENCE, a
\* zero-padded r, a truncated string, the empty string, and nil.
DerInputs ==
  {RString(<<48, 6, 2, 1, 5, 2, 1, 7>>),
   RString(<<48, 6, 2, 1, 40, 2, 1, 7>>),
   RString(<<48, 6, 2, 1, 5, 2, 1, 7, 0>>),
   RString(<<48, 7, 2, 2, 0, 5, 2, 1, 7>>),
   RString(<<48, 6, 2, 1, 5, 2, 1>>),
   RString(<<>>),
   Qnil}

\* Strings an application passes to signature_from_compact: the signature
\* (5, 7), an r equal to the group order, the signature (5, 7) followed by one
\* more byte, a 63-byte string, the empty string, and nil.
CompactInputs ==
  {RString(BE32(5) \o BE32(7)),
   RString(BE32(GROUP_N) \o BE32(7)),
   RString(BE32(5) \o BE32(7) \o <<9>>),
   RString(BE32(5) \o Zeros(31)),
   RString(<<>>),
   Qnil}

\* The string the last call returned, when that call serialized a signature:
\* an application can pass it back to either parser.
LastSerializedSignature ==
  IF ret.op \in {"Signature#der_encoded", "Signature#compact"} /\ ret.raised = "none"
  THEN {RString(ret.value)} ELSE {}

\* What follows a String's bytes in memory.  Reading there is undefined: the
\* bytes read are whatever the heap holds, here one byte value repeated.
HeapGarbage == {0, 255}

\* The 64 bytes secp256k1_ecdsa_signature_parse_compact reads at a String's
\* pointer: the String's own bytes, and past its end, the heap's.
Read64(bytes, heap_byte) ==
  [i \in 1..COMPACT_SIG_SIZE_BYTES |->
     IF i <= Len(bytes) THEN bytes[i] ELSE heap_byte]

\* Signature#der_encoded: serialization into a 512-byte buffer.
Signature_der_encoded ==
  /\ \E s \in Live(signatures) :
       LET der == secp256k1_ecdsa_signature_serialize_der(signatures[s].sig, 512)
       IN  /\ faults' = faults \cup UseFaults(ctxHeap, signatures[s].ctx)
           /\ ret' = IF der.ret # 1
                     THEN Raised("Signature#der_encoded", s,
                                 "RuntimeError: could not compute DER encoded signature")
                     ELSE Returned("Signature#der_encoded", s, der.output)
  /\ UNCHANGED <<ctxHeap, contexts, privateKeys, publicKeys, signatures, keyPairs, strings, threads>>

\* Signature#compact.
Signature_compact ==
  /\ \E s \in Live(signatures) :
       /\ faults' = faults \cup UseFaults(ctxHeap, signatures[s].ctx)
       /\ ret' = Returned("Signature#compact", s,
                   secp256k1_ecdsa_signature_serialize_compact(signatures[s].sig))
  /\ UNCHANGED <<ctxHeap, contexts, privateKeys, publicKeys, signatures, keyPairs, strings, threads>>

\* The parse call of Context_signature_from_der_encoded: the string's bytes and
\* RSTRING_LEN.
Context_signature_from_der_encoded_parse(in_der_encoded_signature) ==
  secp256k1_ecdsa_signature_parse_der(in_der_encoded_signature.bytes,
                                      Len(in_der_encoded_signature.bytes))

\* The outcome of a parser on the Signature struct it allocated: the struct is
\* wrapped before the parse, and gets its cloned context only after a parse
\* that succeeded.
Signature_parsed(op, c, input, parsed, message) ==
  LET cloned == secp256k1_context_clone(ctxHeap, contexts[c].ctx,
                                        Address("Signature", Len(signatures) + 1))
  IN  IF parsed.ret # 1
      THEN /\ signatures' = Append(signatures,
                [Signature_alloc EXCEPT !.sig = parsed.sig])
           /\ ret' = Raised(op, input, message)
           /\ UNCHANGED ctxHeap
      ELSE /\ signatures' = Append(signatures,
                [Signature_alloc EXCEPT !.sig = parsed.sig,
                                        !.ctx = cloned.h,
                                        !.held = TRUE])
           /\ ctxHeap' = cloned.heap
           /\ ret' = Returned(op, input, Len(signatures) + 1)

\* Context#signature_from_der_encoded: Check_Type, then the parse.
Context_signature_from_der_encoded ==
  /\ NumObjects < MaxObjects
  /\ \E c \in Live(contexts),
        in_der_encoded_signature \in DerInputs \cup LastSerializedSignature :
       IF in_der_encoded_signature.type # "T_STRING"
       THEN /\ ret' = Raised("Context#signature_from_der_encoded",
                             in_der_encoded_signature,
                             "TypeError: wrong argument type")
            /\ UNCHANGED <<ctxHeap, signatures, faults>>
       ELSE /\ faults' = faults \cup UseFaults(ctxHeap, contexts[c].ctx)
            /\ Signature_parsed("Context#signature_from_der_encoded", c,
                 in_der_encoded_signature,
                 Context_signature_from_der_encoded_parse(in_der_encoded_signature),
                 "ArgumentError: invalid DER encoded signature")
  /\ UNCHANGED <<contexts, privateKeys, publicKeys, keyPairs, strings, threads>>

\* Context#signature_from_compact: StringValuePtr, then the parse of 64 bytes
\* at the pointer, whatever the String's length.
Context_signature_from_compact ==
  /\ NumObjects < MaxObjects
  /\ \E c \in Live(contexts),
        in_compact_signature \in CompactInputs \cup LastSerializedSignature,
        heap_byte \in HeapGarbage :
       IF in_compact_signature.type # "T_STRING"
       THEN /\ ret' = Raised("Context#signature_from_compact",
                             in_compact_signature,
                             "TypeError: no implicit conversion into String")
            /\ UNCHANGED <<ctxHeap, signatures, faults>>
       ELSE /\ faults' = faults \cup UseFaults(ctxHeap, contexts[c].ctx)
                         \cup (IF Len(in_compact_signature.bytes) < COMPACT_SIG_SIZE_BYTES
                               THEN {"read_past_string"} ELSE {})
            /\ Signature_parsed("Context#signature_from_compact", c,
                 in_compact_signature,
                 secp256k1_ecdsa_signature_parse_compact(
                   Read64(in_compact_signature.bytes, heap_byte)),
                 "ArgumentError: invalid compact signature")
  /\ UNCHANGED <<contexts, privateKeys, publicKeys, keyPairs, strings, threads>>

(***************************************************************************)
(* The free functions.  The GC runs an object's free function once the     *)
(* object is unreachable: the application has dropped it (which it may do  *)
(* at any time) and no reachable KeyPair marks it.                         *)
(***************************************************************************)
\* xfree: the struct's memory is gone; what the model keeps in its place is a
\* cleared struct marked freed.
Freed(cleared) == [cleared EXCEPT !.held = FALSE, !.freed = TRUE]

Context_free ==
  /\ \E c \in DOMAIN contexts :
       /\ ~contexts[c].freed
       /\ faults' = faults \cup DestroyFaults(ctxHeap, contexts[c].ctx)
       /\ ctxHeap' = secp256k1_context_destroy(ctxHeap, contexts[c].ctx)
       /\ contexts' = [contexts EXCEPT ![c] = Freed(Context_alloc)]
  /\ ret' = Returned("free", <<>>, 0)
  /\ UNCHANGED <<privateKeys, publicKeys, signatures, keyPairs, strings, threads>>

PublicKey_free ==
  /\ \E i \in DOMAIN publicKeys :
       /\ ~publicKeys[i].freed /\ ~KeyPair_mark("public_key", i)
       /\ faults' = faults \cup DestroyFaults(ctxHeap, publicKeys[i].ctx)
       /\ ctxHeap' = secp256k1_context_destroy(ctxHeap, publicKeys[i].ctx)
       /\ publicKeys' = [publicKeys EXCEPT ![i] = Freed(PublicKey_alloc)]
  /\ ret' = Returned("free", <<>>, 0)
  /\ UNCHANGED <<contexts, privateKeys, signatures, keyPairs, strings, threads>>

PrivateKey_free ==
  /\ \E i \in DOMAIN privateKeys :
       /\ ~privateKeys[i].freed /\ ~KeyPair_mark("private_key", i)
       /\ faults' = faults \cup DestroyFaults(ctxHeap, privateKeys[i].ctx)
       /\ ctxHeap' = secp256k1_context_destroy(ctxHeap, privateKeys[i].ctx)
       /\ privateKeys' = [privateKeys EXCEPT ![i] = Freed(PrivateKey_alloc)]
       /\ strings' = IF privateKeys[i].iv_data = 0 THEN strings
                     ELSE [strings EXCEPT ![privateKeys[i].iv_data] = <<>>]
  /\ ret' = Returned("free", <<>>, 0)
  /\ UNCHANGED <<contexts, publicKeys, signatures, keyPairs, threads>>

Signature_free ==
  /\ \E i \in DOMAIN signatures :
       /\ ~signatures[i].freed
       /\ faults' = faults \cup DestroyFaults(ctxHeap, signatures[i].ctx)
       /\ ctxHeap' = secp256k1_context_destroy(ctxHeap, signatures[i].ctx)
       /\ signatures' = [signatures EXCEPT ![i] = Freed(Signature_alloc)]
  /\ ret' = Returned("free", <<>>, 0)
  /\ UNCHANGED <<contexts, privateKeys, publicKeys, keyPairs, strings, threads>>

KeyPair_free ==
  /\ \E i \in DOMAIN keyPairs :
       /\ ~keyPairs[i].freed
       /\ keyPairs' = [keyPairs EXCEPT ![i] = Freed(KeyPair_alloc)]
  /\ ret' = Returned("free", <<>>, 0)
  /\ UNCHANGED <<ctxHeap, contexts, privateKeys, publicKeys, signatures, strings, faults, threads>>

Init ==
  /\ ctxHeap = <<>>
  /\ contexts = <<>>
  /\ privateKeys = <<>>
  /\ publicKeys = <<>>
  /\ signatures = <<>>
  /\ keyPairs = <<>>
  /\ strings = <<>>
  /\ faults = {}
  /\ ret = Returned("require", <<>>, 0)
  /\ threads = <<>>

\* The object model and the signing protocol.
Next ==
  \/ Context_new
  \/ PrivateKey_fromBytes
  \/ PrivateKey_generate
  \/ PublicKey_fromPrivateKey
  \/ Context_public_key_from_data
  \/ KeyPair_new
  \/ Context_generate_key_pair
  \/ Context_key_pair_from_private_key
  \/ Signature_new
  \/ Context_sign
  \/ Context_verify
  \/ Context_free
  \/ PrivateKey_free
  \/ PublicKey_free
  \/ Signature_free
  \/ KeyPair_free

Spec == Init /\ [][Next]_vars

\* Serializing and parsing: the calls that turn keys into strings and back.
NextCodec ==
  \/ Context_new
  \/ PrivateKey_fromBytes
  \/ PublicKey_fromPrivateKey
  \/ Context_public_key_from_data
  \/ PublicKey_compressed
  \/ PublicKey_uncompressed

SpecCodec == Init /\ [][NextCodec]_vars

\* Signatures: signing, serializing and parsing them.
NextSignatures ==
  \/ Context_new
  \/ PrivateKey_fromBytes
  \/ Context_sign
  \/ Signature_der_encoded
  \/ Signature_compact
  \/ Context_signature_from_der_encoded
  \/ Context_signature_from_compact

SpecSignatures == Init /\ [][NextSignatures]_vars

\* Private keys: making them, and dropping them.
NextKeys ==
  \/ Context_new
  \/ PrivateKey_fromBytes
  \/ PrivateKey_generate
  \/ PrivateKey_data
  \/ String_setbyte
  \/ PrivateKey_free

SpecKeys == Init /\ [][NextKeys]_vars

(***************************************************************************)
(* Threads sharing one Context.  Each thread signs a message with its own   *)
(* key and verifies the signature: Context#sign, then Context#verify, on    *)
(* the Context all threads share.  The calls are taken apart into the       *)
(* steps of their code, and the steps of different threads interleave       *)
(* freely: the code takes no lock and nothing is assumed of the VM's.       *)
(***************************************************************************)
NumThreads == 2

\* The private key of each thread.
ThreadKeys == <<BE32(3), BE32(5), BE32(11)>>

Threads == 1..NumThreads

SharedContext == contexts[1].ctx

\* A signing call that renews the context's blinding as it goes.
secp256k1_ecdsa_sign_context_rerandomized(ctx) ==
  secp256k1_context_randomize(BE32(ctx.blind + 1))

\* What secp256k1_ecdsa_sign leaves in the context it is given: it takes the
\* context as const and writes nothing.
secp256k1_ecdsa_sign_context(ctx) == ctx

\* The heap once the main thread has built the Context, and a PrivateKey and
\* its PublicKey for each thread.  ret.value keeps the state of the shared
\* context as the threads start.
InitThreads ==
  \E seed \in Seeds \cup StackGarbage :
    LET st == secp256k1_context_randomize(seed)
    IN  /\ contexts = <<[Context_alloc EXCEPT !.ctx = Address("Context", 1),
                                              !.held = TRUE,
                                              !.seed_generated = seed \in Seeds]>>
        /\ privateKeys = [t \in Threads |->
             [PrivateKey_alloc EXCEPT !.data = ThreadKeys[t],
                                      !.ctx = Address("PrivateKey", t),
                                      !.iv_data = t,
                                      !.held = TRUE]]
        /\ publicKeys = [t \in Threads |->
             [PublicKey_alloc EXCEPT
                !.pubkey = secp256k1_ec_pubkey_create(st, ThreadKeys[t]).pubkey,
                !.ctx = Address("PublicKey", t),
                !.held = TRUE]]
        /\ ctxHeap = [h \in {Address("Context", 1)}
                            \cup {Address("PrivateKey", t) : t \in Threads}
                            \cup {Address("PublicKey", t) : t \in Threads}
                      |-> [live |-> TRUE, st |-> st]]
        /\ strings = [t \in Threads |-> ThreadKeys[t]]
        /\ signatures = <<>>
        /\ keyPairs = <<>>
        /\ faults = {}
        /\ ret = Returned("Thread.new", <<>>, st)
        /\ threads = [t \in Threads |->
             [pc |-> "sign", in_data |-> <<>>, signature |-> 0,
              hash |-> Zeros(SHA256_DIGEST_LENGTH), verdict |-> FALSE]]

\* Context_sign up to the call of SignData: Signature_alloc.
Thread_sign_alloc(t) ==
  /\ threads[t].pc = "sign"
  /\ \E in_data \in Messages :
       threads' = [threads EXCEPT ![t].pc = "SignData",
                                  ![t].in_data = in_data,
                                  ![t].signature = Len(signatures) + 1]
  /\ signatures' = Append(signatures, Signature_alloc)
  /\ UNCHANGED <<ctxHeap, contexts, privateKeys, publicKeys, keyPairs, strings, faults, ret>>

\* SignData: the hash, into a buffer on the thread's stack.
Thread_SignData_hash(t) ==
  /\ threads[t].pc = "SignData"
  /\ threads' = [threads EXCEPT ![t].pc = "secp256k1_ecdsa_sign",
                                ![t].hash = SHA256(threads[t].in_data)]
  /\ UNCHANGED <<ctxHeap, contexts, privateKeys, publicKeys, signatures, keyPairs,
                 strings, faults, ret>>

\* SignData: secp256k1_ecdsa_sign with the shared context, into the
\* Signature struct.
Thread_SignData_sign(t) ==
  /\ threads[t].pc = "secp256k1_ecdsa_sign"
  /\ LET ctx    == ctxHeap[SharedContext].st
         signed == secp256k1_ecdsa_sign(ctx, threads[t].hash, privateKeys[t].data)
     IN  /\ signatures' = [signatures EXCEPT ![threads[t].signature].sig = signed.sig]
         /\ ctxHeap' = [ctxHeap EXCEPT
                          ![SharedContext].st = secp256k1_ecdsa_sign_context(ctx)]
         /\ threads' = [threads EXCEPT
                          ![t].pc = IF signed.ret = 1 THEN "secp256k1_context_clone"
                                    ELSE "raised"]
  /\ faults' = faults \cup UseFaults(ctxHeap, SharedContext)
  /\ UNCHANGED <<contexts, privateKeys, publicKeys, keyPairs, strings, ret>>

\* Context_sign after SignData: the Signature gets its clone of the context
\* and is returned.
Thread_sign_clone(t) ==
  /\ threads[t].pc = "secp256k1_context_clone"
  /\ LET cloned == secp256k1_context_clone(ctxHeap, SharedContext,
                                           Address("Signature", threads[t].signature))
     IN  /\ ctxHeap' = cloned.heap
         /\ signatures' = [signatures EXCEPT ![threads[t].signature].ctx = cloned.h,
                                             ![threads[t].signature].held = TRUE]
  /\ threads' = [threads EXCEPT ![t].pc = "verify"]
  /\ faults' = faults \cup UseFaults(ctxHeap, SharedContext)
  /\ UNCHANGED <<contexts, privateKeys, publicKeys, keyPairs, strings, ret>>

\* Context_verify: the hash of the message.
Thread_verify_hash(t) ==
  /\ threads[t].pc = "verify"
  /\ threads' = [threads EXCEPT ![t].pc = "secp256k1_ecdsa_verify",
                                ![t].hash = SHA256(threads[t].in_data)]
  /\ UNCHANGED <<ctxHeap, contexts, privateKeys, publicKeys, signatures, keyPairs,
                 strings, faults, ret>>

\* Context_verify: secp256k1_ecdsa_verify with the shared context.
Thread_verify(t) ==
  /\ threads[t].pc = "secp256k1_ecdsa_verify"
  /\ threads' = [threads EXCEPT
       ![t].pc = "done",
       ![t].verdict = secp256k1_ecdsa_verify(signatures[threads[t].signature].sig,
                                             threads[t].hash,
                                             publicKeys[t].pubkey) = 1]
  /\ faults' = faults \cup UseFaults(ctxHeap, SharedContext)
  /\ UNCHANGED <<ctxHeap, contexts, privateKeys, publicKeys, signatures, keyPairs,
                 strings, ret>>

NextThreads ==
  \E t \in Threads :
    \/ Thread_sign_alloc(t)
    \/ Thread_SignData_hash(t)
    \/ Thread_SignData_sign(t)
    \/ Thread_sign_clone(t)
    \/ Thread_verify_hash(t)
    \/ Thread_verify(t)

SpecThreads == InitThreads /\ [][NextThreads]_vars

(***************************************************************************)
(* Properties                                                              *)
(***************************************************************************)
\* The call the last step made and how it ended.
Called(op) == ret.op = op

Succeeded(op) == ret.op = op /\ ret.raised = "none"

\* derive(sk): the public key sk * G.
Derive(sk) ==
  secp256k1_pubkey_save(secp256k1_ecmult(secp256k1_scalar_set_b32(sk).val, Generator))

\* C1: the signature Context#sign returns for a private key sk and a message m
\* verifies, under Context#verify with the same m, against every public key
\* the application holds that was derived from sk.
C1_SignThenVerify ==
  Succeeded("Context#sign") =>
    LET sk == privateKeys[ret.args[1]].data
        m  == ret.args[2]
    IN  \A k \in ReachablePublicKeys :
          publicKeys[k].pubkey = Derive(sk) => Context_verify_result(signatures[ret.value].sig, publicKeys[k].pubkey, m)

\* A non-empty message has just been signed while the application holds the
\* public key of the signing key.
C1_Witness ==
  /\ Succeeded("Context#sign")
  /\ ret.args[2] # <<>>
  /\ \E k \in ReachablePublicKeys :
       publicKeys[k].pubkey = Derive(privateKeys[ret.args[1]].data)

\* C2: a Context the application holds was randomized with a seed that
\* GenerateRandomBytes generated successfully.
C2_ExposedOnlyWhenSeeded ==
  \A c \in Live(contexts) : contexts[c].seed_generated

\* C3: PrivateKey.new answers a string that is not 32 bytes long with the
\* length error, and 32 bytes that are zero or not below the group order with
\* the invalid-key error; a call that raises stores no key bytes, clones no
\* context and leaves no PrivateKey the application can reach.
C3_FromBytesRejects ==
  [][Called("PrivateKey.new")' =>
       LET data == ret'.args
       IN  /\ Len(data) # 32 =>
                ret'.raised = "ArgumentError: private key data must be 32 bytes in length"
           /\ (Len(data) = 32 /\ (IsZeroBytes(data) \/ ~BytesLess(data, BE32(GROUP_N)))) =>
                ret'.raised = "ArgumentError: invalid private key data"
           /\ ret'.raised # "none" =>
                /\ privateKeys' = Append(privateKeys, PrivateKey_alloc)
                /\ ReachablePrivateKeys' = ReachablePrivateKeys
                /\ ctxHeap' = ctxHeap
                /\ strings' = strings]_vars

\* PrivateKey.new has just refused 32 bytes holding the group order.
C3_Witness ==
  /\ Called("PrivateKey.new")
  /\ ret.args = BE32(GROUP_N)
  /\ ret.raised = "ArgumentError: invalid private key data"
  /\ privateKeys[Len(privateKeys)] = PrivateKey_alloc

\* What a string must be to encode a point of the curve in the compressed
\* form (33 bytes, 0x02 or 0x03, an abscissa of the curve) and in the
\* uncompressed form (65 bytes, 0x04, the coordinates of a point of the curve).
OnCurve(x, y) == (y * y) % FIELD_P = (x * x * x + 7) % FIELD_P

IsCompressedEncoding(data) ==
  /\ Len(data) = 33
  /\ data[1] \in {2, 3}
  /\ \E x, y \in 0..(FIELD_P - 1) : SubSeq(data, 2, 33) = BE32(x) /\ OnCurve(x, y)

IsUncompressedEncoding(data) ==
  /\ Len(data) = 65
  /\ data[1] = 4
  /\ \E x, y \in 0..(FIELD_P - 1) :
       SubSeq(data, 2, 33) = BE32(x) /\ SubSeq(data, 34, 65) = BE32(y) /\ OnCurve(x, y)

\* C4: Context#public_key_from_data returns a PublicKey only when its input is
\* the compressed (33 bytes, 0x02 or 0x03) or the uncompressed (65 bytes, 0x04)
\* encoding of a point of the curve, and raises "invalid public key data" for
\* every other input, a 65-byte input with prefix 0x06 or 0x07 included.
C4_OnlyCompressedOrUncompressed ==
  Called("Context#public_key_from_data") =>
    IF IsCompressedEncoding(ret.args) \/ IsUncompressedEncoding(ret.args)
    THEN ret.raised = "none"
    ELSE ret.raised = "RuntimeError: invalid public key data"

\* C5: Context#verify returns true or false for every Signature, PublicKey and
\* message the application holds, never raises, and changes nothing: not the
\* Context, not the Signature, not the PublicKey, nor any other object.
C5_VerifyTotalAndPure ==
  [][Called("Context#verify")' =>
       /\ \A s \in Live(signatures), k \in ReachablePublicKeys, m \in Messages :
            Context_verify_result(signatures[s].sig, publicKeys[k].pubkey, m) \in BOOLEAN
       /\ ret'.raised = "none"
       /\ ret'.value \in BOOLEAN
       /\ heapVars' = heapVars]_vars

\* Context#verify has just returned false, for a Signature made by Context#sign.
C5_Witness ==
  /\ Succeeded("Context#verify")
  /\ ret.value = FALSE
  /\ signatures[ret.args[1]].ctx # NULL

\* The context handles of the objects the GC has not freed.
OwnedHandles ==
  {<<"Context", i, contexts[i].ctx>> : i \in {j \in DOMAIN contexts : ~contexts[j].freed}}
  \cup {<<"PrivateKey", i, privateKeys[i].ctx>> :
          i \in {j \in DOMAIN privateKeys : ~privateKeys[j].freed}}
  \cup {<<"PublicKey", i, publicKeys[i].ctx>> :
          i \in {j \in DOMAIN publicKeys : ~publicKeys[j].freed}}
  \cup {<<"Signature", i, signatures[i].ctx>> :
          i \in {j \in DOMAIN signatures : ~signatures[j].freed}}

\* C6: every object that has a context handle has one of its own, distinct
\* from the handle of the Context it was built from and from that of every
\* other object, and alive for as long as the object is: whatever has been
\* freed, no handle has been destroyed twice or used after its destruction.
C6_OwnClonedHandle ==
  /\ faults = {}
  /\ \A a \in OwnedHandles : a[3] # NULL => ctxHeap[a[3]].live
  /\ \A a, b \in OwnedHandles : (a # b /\ a[3] # NULL) => a[3] # b[3]
  /\ \A p \in ReachablePrivateKeys : privateKeys[p].ctx # NULL
  /\ \A k \in ReachablePublicKeys : publicKeys[k].ctx # NULL
  /\ Succeeded("Context#sign") => signatures[ret.value].ctx # NULL
  /\ \A h \in DOMAIN ctxHeap : ctxHeap[h].live => \E a \in OwnedHandles : a[3] = h

\* The Context has been freed while a PrivateKey and a Signature built from it
\* are still held.
C6_Witness ==
  /\ \E c \in DOMAIN contexts : contexts[c].freed
  /\ ReachablePrivateKeys # {}
  /\ \E s \in Live(signatures) : signatures[s].ctx # NULL

\* C7: every PrivateKey, PublicKey and Signature the application can hold has
\* valid contents and a context of its own: there is no object with zeroed
\* contents and no context.
C7_NoUnconstructedObject ==
  /\ \A p \in ReachablePrivateKeys :
       privateKeys[p].ctx # NULL /\ secp256k1_ec_seckey_verify(privateKeys[p].data) = 1
  /\ \A k \in ReachablePublicKeys :
       /\ publicKeys[k].ctx # NULL
       /\ secp256k1_ge_is_valid_var(secp256k1_pubkey_load(publicKeys[k].pubkey))
  /\ \A s \in Live(signatures) :
       signatures[s].ctx # NULL /\ signatures[s].sig # ZeroSig

\* Whether a KeyPair holds a reachable PublicKey that is the one derived from
\* its PrivateKey.
Paired(kp) ==
  /\ kp.public_key \in ReachablePublicKeys
  /\ kp.private_key \in ReachablePrivateKeys
  /\ publicKeys[kp.public_key].pubkey = Derive(privateKeys[kp.private_key].data)

\* C9: a KeyPair built by Context#generate_key_pair or by
\* Context#key_pair_from_private_key holds the PublicKey derived from its
\* PrivateKey, and the latter call's PrivateKey holds the bytes supplied;
\* KeyPair.new holds the two objects it was given, whether they pair or not.
C9_FactoryPairsDerive ==
  /\ \A i \in Live(keyPairs) :
       keyPairs[i].made_by \in {"Context#generate_key_pair",
                                "Context#key_pair_from_private_key"}
         => Paired(keyPairs[i])
  /\ Succeeded("Context#key_pair_from_private_key") =>
       privateKeys[keyPairs[ret.value].private_key].data = ret.args
  /\ Succeeded("KeyPair.new") =>
       /\ keyPairs[ret.value].public_key = ret.args[1]
       /\ keyPairs[ret.value].private_key = ret.args[2]

\* Context#key_pair_from_private_key has just returned a KeyPair.
C9_Witness ==
  /\ Succeeded("Context#key_pair_from_private_key")
  /\ ret.value \in Live(keyPairs)

\* C9 as the specification states it: every KeyPair, KeyPair.new's included,
\* holds the PublicKey derived from its PrivateKey.
C9_EveryPairDerives ==
  \A i \in Live(keyPairs) : Paired(keyPairs[i])

\* Every public key there is: k * G for each scalar k a private key can hold.
EveryKeyRoundTrips ==
  \A k \in 1..(GROUP_N - 1), compressed \in BOOLEAN :
    LET pk     == secp256k1_pubkey_save(secp256k1_ecmult(k, Generator))
        parsed == Context_public_key_from_data_parse(
                    secp256k1_ec_pubkey_serialize(pk, compressed))
    IN  parsed.ret = 1 /\ parsed.pubkey = pk

\* C10: when Context#public_key_from_data is given the compressed or the
\* uncompressed serialization of a PublicKey, it returns a PublicKey whose
\* compressed serialization (33 bytes) and uncompressed serialization (65
\* bytes) are those of the key serialized; and so it is for every key k * G.
C10_ParseOfSerialized ==
  /\ EveryKeyRoundTrips
  /\ Called("Context#public_key_from_data") =>
       \A k \in ReachablePublicKeys, compressed \in BOOLEAN :
         LET pk == publicKeys[k].pubkey
         IN  ret.args = secp256k1_ec_pubkey_serialize(pk, compressed) =>
               /\ ret.raised = "none"
               /\ \A c \in BOOLEAN :
                    /\ secp256k1_ec_pubkey_serialize(publicKeys[ret.value].pubkey, c)
                         = secp256k1_ec_pubkey_serialize(pk, c)
                    /\ Len(secp256k1_ec_pubkey_serialize(pk, c)) = IF c THEN 33 ELSE 65

\* The string PublicKey#uncompressed returned for a key has just been parsed
\* into a second PublicKey.
C10_Witness ==
  /\ Succeeded("Context#public_key_from_data")
  /\ Len(ret.args) = 65
  /\ \E k \in ReachablePublicKeys :
       /\ k # ret.value
       /\ ret.args = secp256k1_ec_pubkey_serialize(publicKeys[k].pubkey, FALSE)

\* C8: with the threads' steps interleaved in any order, the shared Context
\* stays as it was, and a thread that is done has got true from verify and
\* holds the Signature and the verdict that Context#sign and Context#verify
\* return when nothing runs beside them.
C8_ThreadsSignAndVerify ==
  /\ ctxHeap[SharedContext] = [live |-> TRUE, st |-> ret.value]
  /\ faults = {}
  /\ \A t \in Threads :
       /\ threads[t].pc # "raised"
       /\ threads[t].pc = "done" =>
            LET s == signatures[threads[t].signature]
            IN  /\ threads[t].verdict
                /\ s.held
                /\ s.sig = SignData(ret.value, threads[t].in_data,
                                    privateKeys[t].data).out_signature
                /\ s.ctx = Address("Signature", threads[t].signature)
                /\ ctxHeap[s.ctx] = [live |-> TRUE, st |-> ret.value]
                /\ threads[t].verdict
                     = Context_verify_result(s.sig, publicKeys[t].pubkey, threads[t].in_data)

\* Every thread is done, and the second thread allocated its Signature before
\* the first.
C8_Witness ==
  /\ \A t \in Threads : threads[t].pc = "done"
  /\ threads[1].signature = 2
  /\ threads[1].in_data # <<>>

(***************************************************************************)
(* Signature round trips                                                   *)
(***************************************************************************)
\* The DER and the compact serialization of a signature, as Signature#
\* der_encoded and Signature#compact return them.
DerOf(sig) == secp256k1_ecdsa_signature_serialize_der(sig, 512).output

CompactOf(sig) == secp256k1_ecdsa_signature_serialize_compact(sig)

\* The signature object a parser returned holds the pair of the signature s
\* and serializes to the same bytes in both encodings.
SameSignature(s) ==
  /\ ret.raised = "none"
  /\ ret.value \in Live(signatures)
  /\ signatures[ret.value].sig = signatures[s].sig
  /\ DerOf(signatures[ret.value].sig) = DerOf(signatures[s].sig)
  /\ CompactOf(signatures[ret.value].sig) = CompactOf(signatures[s].sig)

\* C11: for every Signature an application holds (made by sign or by a parse
\* that succeeded), signature_from_der_encoded of its DER serialization and
\* signature_from_compact of its compact serialization succeed and return a
\* Signature with the same (r, s), which serializes to the same bytes.
C11_SignatureRoundTrip ==
  /\ Called("Context#signature_from_der_encoded") =>
       \A s \in Live(signatures) :
         ret.args = RString(DerOf(signatures[s].sig)) => SameSignature(s)
  /\ Called("Context#signature_from_compact") =>
       \A s \in Live(signatures) :
         ret.args = RString(CompactOf(signatures[s].sig)) => SameSignature(s)

\* A signature made by sign has been serialized to DER and parsed back into a
\* second Signature object.
C11_Witness ==
  /\ Succeeded("Context#signature_from_der_encoded")
  /\ \E s \in Live(signatures) :
       /\ s # ret.value
       /\ signatures[s].sig.r # 0 /\ signatures[s].sig.s # 0
       /\ \E p \in ReachablePrivateKeys, m \in Messages :
            signatures[s].sig
              = SignData(secp256k1_context_create, m, privateKeys[p].data).out_signature
       /\ ret.args = RString(DerOf(signatures[s].sig))

(***************************************************************************)
(* PrivateKey.generate                                                     *)
(***************************************************************************)
\* C12: PrivateKey.generate consumes exactly one outcome of the random source.
\* When that draw fails (generator not seeded, or RAND_bytes fails) the call
\* raises the generation error and no PrivateKey struct is made; when the bytes
\* drawn are not a valid scalar the call raises the validity error and the
\* application holds no new PrivateKey; otherwise the new PrivateKey holds the
\* bytes drawn.
C12_GenerateDrawsOnce ==
  [][Called("PrivateKey.generate")' =>
       /\ Len(ret'.args) = 1
       /\ LET rng   == ret'.args[1]
              drawn == GenerateRandomBytes(rng, Zeros(32))
          IN  IF drawn.result # RESULT_SUCCESS
              THEN /\ ret'.raised = "RuntimeError: Random bytes generation failed."
                   /\ privateKeys' = privateKeys
              ELSE IF secp256k1_ec_seckey_verify(rng.bytes) # 1
              THEN /\ ret'.raised = "ArgumentError: invalid private key data"
                   /\ Live(privateKeys') = Live(privateKeys)
                   /\ strings' = strings
              ELSE /\ ret'.raised = "none"
                   /\ privateKeys' = Append(privateKeys, privateKeys'[ret'.value])
                   /\ privateKeys'[ret'.value].data = rng.bytes
                   /\ privateKeys'[ret'.value].held]_vars

\* PrivateKey.generate has raised the validity error on bytes drawn out of
\* range.
C12_Witness ==
  /\ Called("PrivateKey.generate")
  /\ ret.raised = "ArgumentError: invalid private key data"
  /\ ret.args[1].rand_bytes = 1
  /\ ~BytesLess(ret.args[1].bytes, BE32(GROUP_N))

(***************************************************************************)
(* Deterministic signing                                                   *)
(***************************************************************************)
\* C13: the (r, s) of the Signature Context#sign returns is a function of the
\* PrivateKey's bytes and the message alone: it is the pair SignData computes
\* under a context that was never randomized, whatever blinding the Context
\* that signed carries.
C13_SignDeterministic ==
  Succeeded("Context#sign") =>
    signatures[ret.value].sig
      = SignData(secp256k1_context_create, ret.args[2],
                 privateKeys[ret.args[1]].data).out_signature

\* Context#sign has succeeded on a Context whose blinding is not the default
\* one.
C13_Witness ==
  /\ Succeeded("Context#sign")
  /\ Live(contexts) # {}
  /\ \A c \in Live(contexts) :
       ctxHeap[contexts[c].ctx].st.blind # secp256k1_context_create.blind

(***************************************************************************)
(* Context#signature_from_compact and the length of its input              *)
(***************************************************************************)
\* C14: signature_from_compact raises the invalid-compact-signature error on
\* every input that is not a String of exactly 64 bytes, never reads past the
\* end of the String it was given, and never returns a Signature built from
\* fewer than 64 supplied bytes.
C14_FromCompactNeeds64Bytes ==
  /\ "read_past_string" \notin faults
  /\ Called("Context#signature_from_compact") =>
       (ret.args.type # "T_STRING" \/ Len(ret.args.bytes) # COMPACT_SIG_SIZE_BYTES
          => ret.raised = "ArgumentError: invalid compact signature")

(***************************************************************************)
(* PrivateKey#data                                                         *)
(***************************************************************************)
\* C15: the value a PrivateKey exposes (its @data String, which PrivateKey#data
\* returns) always equals the 32 bytes the PrivateKey stores internally,
\* whatever the application does to the String it passed to new.
C15_ExposedEqualsStored ==
  /\ \A p \in ReachablePrivateKeys :
       privateKeys[p].iv_data # 0 =>
         strings[privateKeys[p].iv_data] = privateKeys[p].data
  /\ Called("PrivateKey#data") => ret.value = privateKeys[ret.args].data

====
